---- MODULE Spec2Model ----
(***************************************************************************)
(* Model of src/Graviton/q1.cpp: a disjoint-set-union with potential       *)
(* differences (struct DSU: parent, diff, find, unite) and the driver      *)
(* (solve, main) that feeds it constraints x_i - x_j = c and prints        *)
(* YES / NO per test case.                                                 *)
(*                                                                         *)
(* Two specifications share the variables:                                 *)
(*   Spec       a DSU built by the constructor and then used through its   *)
(*              two member functions, find and unite, in any order;        *)
(*   SpecSolve  the program: main reads t, and solve runs t times.         *)
(***************************************************************************)
EXTENDS Integers, Sequences, FiniteSets, TLC

\* ------------------------------------------------------------------ bounds
\* largest n (number of elements) a DSU is constructed with
MaxN == 3
\* largest number of unite calls made on one DSU under Spec
MaxUnites == 3
\* largest m (number of constraints of a test case) under SpecSolve
MaxM == 3
\* largest t (number of test cases) under SpecSolve
MaxT == 2

\* the values of c fed to unite on every pair (i, j)
CVals == {-1, 0, 1}
\* the constraints of the spec's worked scenarios, fed as they stand
ScenarioCons == {<<1, 2, 5>>, <<2, 3, 3>>, <<1, 3, 8>>, <<1, 3, 7>>, <<1, 3, 9>>}

\* the header (n, m) of the spec's scenario C, read as it stands
ScenarioHeaders == {<<4, 1>>}

\* the headers (n, m) a test case may start with
Headers == ((1..MaxN) \X (0..MaxM)) \cup ScenarioHeaders

\* the constraints (i, j, c) a DSU of n elements may be given
Inputs(nn) ==
  {x \in (1..nn) \X (1..nn) \X CVals : TRUE}
    \cup {x \in ScenarioCons : x[1] <= nn /\ x[2] <= nn}

\* --------------------------------------------------------------- variables
VARIABLES
  n,         \* solve: n; the DSU has slots 0..n
  parent,    \* DSU::parent
  diff,      \* DSU::diff
  call,      \* history: the last member-function call, its arguments and result
             \* (again: it is a find(i) that follows a find(i); last: that one's root)
  pre,       \* history: parent, diff and accepted as they were before that call
  accepted,  \* history: the constraints whose unite call returned true
  ucount,    \* history: number of unite calls made on this DSU
  pc,        \* the driver's position
  t,         \* main: t, the test cases still to run
  m,         \* solve: m
  k,         \* solve: the loop counter k
  consistent,\* solve: consistent
  cons,      \* history: the constraints read so far in this test case
  failK,     \* history: the number of constraints read when unite first returned false (0: never)
  out,       \* the lines written to cout
  tests      \* history: t as main read it (0 before that)

driverVars == <<pc, t, m, k, consistent, cons, failK, out, tests>>
vars == <<n, parent, diff, call, pre, accepted, ucount,
          pc, t, m, k, consistent, cons, failK, out, tests>>

\* ------------------------------------------------------------- struct DSU
\* diff holds long long (64 bits) and c is an int (32 bits): with the values
\* of c and the numbers of calls explored here every sum stays far inside
\* both ranges, so the arithmetic below is that of the integers.
\* mutant: the constructor resizes parent and forgets the iota
NewDSUNoIota(nn) ==
  [parent |-> [x \in 0..nn |-> 0], diff |-> [x \in 0..nn |-> 0]]

\* DSU(int n): parent = 0, 1, .., n (iota) and diff = 0 everywhere
NewDSU(nn) ==
  [parent |-> [x \in 0..nn |-> x], diff |-> [x \in 0..nn |-> 0]]

\* mutant: the compression forgets to add the old parent's diff
CompressDiffStale(df, pa, i) == df[i]

\* find, line 47: diff[i] += diff[parent[i]]
CompressDiff(df, pa, i) == df[i] + df[pa[i]]

\* mutant: find adds the old parent's diff but does not repoint parent[i]
RECURSIVE FindOpNoRepoint(_, _)
FindOpNoRepoint(d, i) ==
  IF d.parent[i] = i
  THEN [parent |-> d.parent, diff |-> d.diff, root |-> i]
  ELSE LET r == FindOpNoRepoint(d, d.parent[i])
           df == [r.diff EXCEPT ![i] = r.diff[i] + r.diff[r.parent[i]]]
       IN [parent |-> r.parent, diff |-> df, root |-> r.root]

\* find(i) on the DSU d: the DSU it leaves, and the root it returns
RECURSIVE FindOp(_, _)
FindOp(d, i) ==
  IF d.parent[i] = i
  THEN [parent |-> d.parent, diff |-> d.diff, root |-> i]
  ELSE LET r == FindOp(d, d.parent[i])
           df == [r.diff EXCEPT ![i] = CompressDiff(r.diff, r.parent, i)]
           pa == [r.parent EXCEPT ![i] = r.root]
       IN [parent |-> pa, diff |-> df, root |-> r.root]

\* mutant: the two diffs of the merge swapped
MergeDiffSwapped(df, i, j, c) == df[i] - df[j] + c

\* mutant: the merge subtracts c
MergeDiffNegC(df, i, j, c) == df[j] - df[i] - c

\* unite, line 79: the new diff[root_i] = diff[j] - diff[i] + c
MergeDiff(df, i, j, c) == df[j] - df[i] + c

\* mutant: the contradiction test with i and j swapped
ContradictsSwapped(df, i, j, c) == df[j] - df[i] # c

\* mutant: the contradiction test adds the two diffs
ContradictsPlus(df, i, j, c) == df[i] + df[j] # c

\* unite, line 85: the contradiction test diff[i] - diff[j] != c
Contradicts(df, i, j, c) == df[i] - df[j] # c

\* mutant: unite makes the contradiction test before it looks at the roots
UniteOpTestsFirst(d, i, j, c) ==
  LET fi == FindOp(d, i)
      fj == FindOp([parent |-> fi.parent, diff |-> fi.diff], j)
      root_i == fi.root
      root_j == fj.root
  IN IF Contradicts(fj.diff, i, j, c)
     THEN [parent |-> fj.parent, diff |-> fj.diff,
           ret |-> FALSE, merged |-> FALSE]
     ELSE IF root_i # root_j
          THEN [parent |-> [fj.parent EXCEPT ![root_i] = root_j],
                diff |-> [fj.diff EXCEPT ![root_i] = MergeDiff(fj.diff, i, j, c)],
                ret |-> TRUE, merged |-> TRUE]
          ELSE [parent |-> fj.parent, diff |-> fj.diff,
                ret |-> TRUE, merged |-> FALSE]

\* mutant: the merge hangs root_j under root_i, with the diff that goes
\* with that direction
UniteOpAttachesJ(d, i, j, c) ==
  LET fi == FindOp(d, i)
      fj == FindOp([parent |-> fi.parent, diff |-> fi.diff], j)
      root_i == fi.root
      root_j == fj.root
  IN IF root_i # root_j
     THEN [parent |-> [fj.parent EXCEPT ![root_j] = root_i],
           diff |-> [fj.diff EXCEPT ![root_j] = fj.diff[i] - fj.diff[j] - c],
           ret |-> TRUE, merged |-> TRUE]
     ELSE IF Contradicts(fj.diff, i, j, c)
          THEN [parent |-> fj.parent, diff |-> fj.diff,
                ret |-> FALSE, merged |-> FALSE]
          ELSE [parent |-> fj.parent, diff |-> fj.diff,
                ret |-> TRUE, merged |-> FALSE]

\* mutant: the merge hangs i itself, not its root, under root_j
UniteOpMovesNode(d, i, j, c) ==
  LET fi == FindOp(d, i)
      fj == FindOp([parent |-> fi.parent, diff |-> fi.diff], j)
      root_i == fi.root
      root_j == fj.root
  IN IF root_i # root_j
     THEN [parent |-> [fj.parent EXCEPT ![i] = root_j],
           diff |-> [fj.diff EXCEPT ![i] = fj.diff[j] + c],
           ret |-> TRUE, merged |-> TRUE]
     ELSE IF Contradicts(fj.diff, i, j, c)
          THEN [parent |-> fj.parent, diff |-> fj.diff,
                ret |-> FALSE, merged |-> FALSE]
          ELSE [parent |-> fj.parent, diff |-> fj.diff,
                ret |-> TRUE, merged |-> FALSE]

\* mutant: the merge hangs root_j under root_i but writes diff[root_i]
UniteOpMixesRoots(d, i, j, c) ==
  LET fi == FindOp(d, i)
      fj == FindOp([parent |-> fi.parent, diff |-> fi.diff], j)
      root_i == fi.root
      root_j == fj.root
  IN IF root_i # root_j
     THEN [parent |-> [fj.parent EXCEPT ![root_j] = root_i],
           diff |-> [fj.diff EXCEPT ![root_i] = MergeDiff(fj.diff, i, j, c)],
           ret |-> TRUE, merged |-> TRUE]
     ELSE IF Contradicts(fj.diff, i, j, c)
          THEN [parent |-> fj.parent, diff |-> fj.diff,
                ret |-> FALSE, merged |-> FALSE]
          ELSE [parent |-> fj.parent, diff |-> fj.diff,
                ret |-> TRUE, merged |-> FALSE]

\* mutant: unite sets parent[i] = j without looking at the roots
UniteOpLinksNodes(d, i, j, c) ==
  LET fi == FindOp(d, i)
      fj == FindOp([parent |-> fi.parent, diff |-> fi.diff], j)
  IN [parent |-> [fj.parent EXCEPT ![i] = j],
      diff |-> [fj.diff EXCEPT ![i] = c],
      ret |-> TRUE, merged |-> fi.root # fj.root]

\* unite(i, j, c) on the DSU d: the DSU it leaves, what it returns, and
\* whether it took the merging branch
UniteOp(d, i, j, c) ==
  LET fi == FindOp(d, i)
      fj == FindOp([parent |-> fi.parent, diff |-> fi.diff], j)
      root_i == fi.root
      root_j == fj.root
  IN IF root_i # root_j
     THEN [parent |-> [fj.parent EXCEPT ![root_i] = root_j],
           diff |-> [fj.diff EXCEPT ![root_i] = MergeDiff(fj.diff, i, j, c)],
           ret |-> TRUE, merged |-> TRUE]
     ELSE IF Contradicts(fj.diff, i, j, c)
          THEN [parent |-> fj.parent, diff |-> fj.diff,
                ret |-> FALSE, merged |-> FALSE]
          ELSE [parent |-> fj.parent, diff |-> fj.diff,
                ret |-> TRUE, merged |-> FALSE]

\* the sums find(i) computes on the DSU d at line 47, one for each node
\* below the root on the path from i
RECURSIVE FindSums(_, _)
FindSums(d, i) ==
  IF d.parent[i] = i
  THEN {}
  ELSE LET r == FindOp(d, d.parent[i])
       IN FindSums(d, d.parent[i]) \cup {CompressDiff(r.diff, r.parent, i)}

\* the sums and differences unite(i, j, c) computes on the DSU d: those of
\* its two finds, then diff[j] - diff[i] and diff[j] - diff[i] + c of line
\* 79, or diff[i] - diff[j] of line 85
UniteSums(d, i, j, c) ==
  LET fi == FindOp(d, i)
      d1 == [parent |-> fi.parent, diff |-> fi.diff]
      fj == FindOp(d1, j)
  IN FindSums(d, i) \cup FindSums(d1, j)
       \cup (IF fi.root # fj.root
             THEN {fj.diff[j] - fj.diff[i], MergeDiff(fj.diff, i, j, c)}
             ELSE {fj.diff[i] - fj.diff[j]})

\* ------------------------------------------------ vocabulary of the claims
\* the root reached from k by following parent pointers to the fixed point
RECURSIVE Root(_, _)
Root(pa, x) == IF pa[x] = x THEN x ELSE Root(pa, pa[x])

\* pot(k): the sum of the diff values along the parent path from k to its root
RECURSIVE Pot(_, _, _)
Pot(pa, df, x) == IF pa[x] = x THEN 0 ELSE df[x] + Pot(pa, df, pa[x])

\* the nodes on the parent path from k to its root, both included
RECURSIVE PathNodes(_, _)
PathNodes(pa, x) == IF pa[x] = x THEN {x} ELSE {x} \cup PathNodes(pa, pa[x])

\* no member function has been called yet
NoCall == [op |-> "none", i |-> 0, j |-> 0, c |-> 0,
           ret |-> TRUE, merged |-> FALSE, root |-> 0,
           again |-> FALSE, last |-> 0]

\* ------------------------------------------------------------ Spec: the DSU
Init ==
  /\ n \in 1..MaxN
  /\ parent = NewDSU(n).parent
  /\ diff = NewDSU(n).diff
  /\ call = NoCall
  /\ pre = [parent |-> parent, diff |-> diff, accepted |-> {}]
  /\ accepted = {}
  /\ ucount = 0
  /\ pc = "dsu"
  /\ t = 0
  /\ m = 0
  /\ k = 0
  /\ consistent = TRUE
  /\ cons = <<>>
  /\ failK = 0
  /\ out = <<>>
  /\ tests = 0

\* a call find(i), 1 <= i <= n
Find(i) ==
  /\ pc = "dsu"
  /\ LET f == FindOp([parent |-> parent, diff |-> diff], i)
     IN /\ parent' = f.parent
        /\ diff' = f.diff
        /\ call' = [op |-> "find", i |-> i, j |-> 0, c |-> 0,
                    ret |-> TRUE, merged |-> FALSE, root |-> f.root,
                    again |-> (call.op = "find" /\ call.i = i),
                    last |-> IF call.op = "find" /\ call.i = i
                             THEN call.root ELSE 0]
  /\ pre' = [parent |-> parent, diff |-> diff, accepted |-> accepted]
  /\ UNCHANGED <<n, accepted, ucount>>
  /\ UNCHANGED driverVars

\* a call unite(i, j, c), 1 <= i, j <= n
Unite(i, j, c) ==
  /\ pc = "dsu"
  /\ ucount < MaxUnites
  /\ LET u == UniteOp([parent |-> parent, diff |-> diff], i, j, c)
     IN /\ parent' = u.parent
        /\ diff' = u.diff
        /\ call' = [op |-> "unite", i |-> i, j |-> j, c |-> c,
                    ret |-> u.ret, merged |-> u.merged, root |-> 0,
                    again |-> FALSE, last |-> 0]
        /\ accepted' = IF u.ret THEN accepted \cup {<<i, j, c>>} ELSE accepted
  /\ pre' = [parent |-> parent, diff |-> diff, accepted |-> accepted]
  /\ ucount' = ucount + 1
  /\ UNCHANGED n
  /\ UNCHANGED driverVars

DoFind == \E i \in 1..n : Find(i)
DoUnite == \E x \in Inputs(n) : Unite(x[1], x[2], x[3])

Next == DoFind \/ DoUnite

Spec == Init /\ [][Next]_vars

\* ------------------------------------------------- SpecSolve: the program
\* main before cin >> t; no DSU exists yet
InitSolve ==
  /\ n = 0
  /\ parent = NewDSU(0).parent
  /\ diff = NewDSU(0).diff
  /\ call = NoCall
  /\ pre = [parent |-> parent, diff |-> diff, accepted |-> {}]
  /\ accepted = {}
  /\ ucount = 0
  /\ pc = "start"
  /\ t = 0
  /\ m = 0
  /\ k = 0
  /\ consistent = TRUE
  /\ cons = <<>>
  /\ failK = 0
  /\ out = <<>>
  /\ tests = 0

\* main: cin >> t
ReadT ==
  /\ pc = "start"
  /\ t' \in 0..MaxT
  /\ tests' = t'
  /\ pc' = "main"
  /\ UNCHANGED <<n, parent, diff, call, pre, accepted, ucount,
                 m, k, consistent, cons, failK, out>>

\* main: while (t--), entering solve() or leaving the loop (return 0); a
\* solve() that has printed returns here, and its locals and its DSU are gone
MainLoop ==
  /\ pc = "main"
  /\ t' = t - 1
  /\ pc' = IF t # 0 THEN "solve" ELSE "done"
  /\ n' = 0
  /\ parent' = NewDSU(0).parent
  /\ diff' = NewDSU(0).diff
  /\ call' = NoCall
  /\ pre' = [parent |-> parent', diff |-> diff', accepted |-> {}]
  /\ accepted' = {}
  /\ ucount' = 0
  /\ m' = 0
  /\ k' = 0
  /\ consistent' = TRUE
  /\ cons' = <<>>
  /\ failK' = 0
  /\ UNCHANGED <<out, tests>>

\* solve: cin >> n >> m; DSU dsu(n); consistent = true; k = 0
SolveHeader ==
  /\ pc = "solve"
  /\ \E h \in Headers : n' = h[1] /\ m' = h[2]
  /\ parent' = NewDSU(n').parent
  /\ diff' = NewDSU(n').diff
  /\ consistent' = TRUE
  /\ k' = 0
  /\ call' = NoCall
  /\ pre' = [parent |-> parent', diff |-> diff', accepted |-> {}]
  /\ accepted' = {}
  /\ ucount' = 0
  /\ cons' = <<>>
  /\ failK' = 0
  /\ pc' = "loop"
  /\ UNCHANGED <<t, out, tests>>

\* mutant: the loop calls unite on every constraint, consistent or not
ReadConstraintUnguarded(i, j, c) ==
  /\ pc = "loop"
  /\ k < m
  /\ cons' = Append(cons, <<i, j, c>>)
  /\ k' = k + 1
  /\ LET u == UniteOp([parent |-> parent, diff |-> diff], i, j, c)
     IN /\ parent' = u.parent
        /\ diff' = u.diff
        /\ call' = [op |-> "unite", i |-> i, j |-> j, c |-> c,
                    ret |-> u.ret, merged |-> u.merged, root |-> 0,
                    again |-> FALSE, last |-> 0]
        /\ pre' = [parent |-> parent, diff |-> diff, accepted |-> accepted]
        /\ accepted' = IF u.ret THEN accepted \cup {<<i, j, c>>} ELSE accepted
        /\ ucount' = ucount + 1
        /\ consistent' = (consistent /\ u.ret)
        /\ failK' = IF u.ret \/ failK # 0 THEN failK ELSE k + 1
  /\ UNCHANGED <<n, pc, t, m, out, tests>>

\* solve: one round of the for loop: cin >> i >> j >> c, and unite(i, j, c)
\* only while consistent
ReadConstraint(i, j, c) ==
  /\ pc = "loop"
  /\ k < m
  /\ cons' = Append(cons, <<i, j, c>>)
  /\ k' = k + 1
  /\ IF consistent
     THEN LET u == UniteOp([parent |-> parent, diff |-> diff], i, j, c)
          IN /\ parent' = u.parent
             /\ diff' = u.diff
             /\ call' = [op |-> "unite", i |-> i, j |-> j, c |-> c,
                         ret |-> u.ret, merged |-> u.merged, root |-> 0,
                         again |-> FALSE, last |-> 0]
             /\ pre' = [parent |-> parent, diff |-> diff, accepted |-> accepted]
             /\ accepted' = IF u.ret THEN accepted \cup {<<i, j, c>>} ELSE accepted
             /\ ucount' = ucount + 1
             /\ consistent' = u.ret
             /\ failK' = IF u.ret THEN failK ELSE k + 1
     ELSE UNCHANGED <<parent, diff, call, pre, accepted, ucount, consistent, failK>>
  /\ UNCHANGED <<n, pc, t, m, out, tests>>

\* solve: the loop is over; cout << "YES\n" or "NO\n"
PrintVerdict ==
  /\ pc = "loop"
  /\ ~(k < m)
  /\ out' = Append(out, IF consistent THEN "YES" ELSE "NO")
  /\ pc' = "main"
  /\ UNCHANGED <<n, parent, diff, call, pre, accepted, ucount,
                 t, m, k, consistent, cons, failK, tests>>

DoRead == \E x \in Inputs(n) : ReadConstraint(x[1], x[2], x[3])

NextSolve == ReadT \/ MainLoop \/ SolveHeader \/ DoRead \/ PrintVerdict

SpecSolve == InitSolve /\ [][NextSolve]_vars

\* ------------------------------------------------------------- the claims
SameRoot(pa, a, b) == Root(pa, a) = Root(pa, b)

\* pot(a) - pot(b) in the DSU (pa, df)
PotDiff(pa, df, a, b) == Pot(pa, df, a) - Pot(pa, df, b)

Abs(x) == IF x < 0 THEN -x ELSE x

RECURSIVE SumAbs(_)
SumAbs(cs) == IF cs = <<>> THEN 0 ELSE Abs(Head(cs)[3]) + SumAbs(Tail(cs))

\* the assignment x satisfies every constraint of the sequence cs
Satisfies(x, cs) ==
  \A q \in 1..Len(cs) : x[cs[q][1]] - x[cs[q][2]] = cs[q][3]

\* some integer assignment x_1..x_nn satisfies cs. The constraints fix only
\* differences, so x_1 = 0 loses nothing, and along a simple path of
\* constraints a difference is at most the sum of the |c|, so an assignment in
\* that range exists whenever any exists.
Sat(nn, cs) ==
  LET B == SumAbs(cs)
  IN \E y \in [2..nn -> (-B)..B] :
       Satisfies([x \in 1..nn |-> IF x = 1 THEN 0 ELSE y[x]], cs)

\* solve() has printed the verdict of a test case and not yet returned
Printed == pc = "main" /\ n > 0

Verdict == out[Len(out)]

\* a fresh DSU of nn elements after unite on each constraint of cs in turn;
\* ok: every call returned true
RECURSIVE RunFrom(_, _)
RunFrom(d, cs) ==
  IF cs = <<>> THEN d
  ELSE LET u == UniteOp([parent |-> d.parent, diff |-> d.diff],
                        Head(cs)[1], Head(cs)[2], Head(cs)[3])
       IN RunFrom([parent |-> u.parent, diff |-> u.diff, ok |-> d.ok /\ u.ret],
                  Tail(cs))

RunSeq(nn, cs) ==
  RunFrom([parent |-> NewDSU(nn).parent, diff |-> NewDSU(nn).diff, ok |-> TRUE], cs)

\* C1: when solve() has printed, it has read all m constraints, and the line
\* is YES if some integer assignment satisfies all of them and NO otherwise.
C1_VerdictIffSatisfiable ==
  Printed =>
    /\ Len(cons) = m
    /\ Verdict \in {"YES", "NO"}
    /\ (Verdict = "YES") <=> Sat(n, cons)

\* a run that printed YES for one test case and then NO for a test case whose
\* third constraint contradicts the first two
C1_Witness ==
  /\ Printed
  /\ out = <<"YES", "NO">>
  /\ m = 3
  /\ failK = 3
  /\ Cardinality(accepted) = 2

\* C2: every constraint (i, j, c) whose unite call returned true has i and j
\* under one root, with pot(i) - pot(j) = c, after every later call.
C2_AcceptedHold ==
  \A x \in accepted :
    /\ SameRoot(parent, x[1], x[2])
    /\ PotDiff(parent, diff, x[1], x[2]) = x[3]

\* three different constraints were accepted, the last by the call just made
C2_Witness ==
  /\ pc = "dsu"
  /\ call.op = "unite"
  /\ call.ret
  /\ Cardinality(accepted) = 3
  /\ Cardinality(pre.accepted) = 2
  /\ \E x \in accepted : x[3] # 0

\* C3: unite(i, j, c) on i and j of one component returns true exactly when
\* pot(i) - pot(j), taken before the call, equals c.
C3_SameComponentVerdict ==
  (call.op = "unite" /\ SameRoot(pre.parent, call.i, call.j)) =>
    (call.ret <=> PotDiff(pre.parent, pre.diff, call.i, call.j) = call.c)

\* a unite on two different elements of one component returned false
C3_Witness ==
  /\ pc = "dsu"
  /\ call.op = "unite"
  /\ call.i # call.j
  /\ SameRoot(pre.parent, call.i, call.j)
  /\ ~call.ret
  /\ PotDiff(pre.parent, pre.diff, call.i, call.j) # 0

\* C4: unite(i, j, c) on i and j of different components returns true.
C4_DisjointNeverConflict ==
  (call.op = "unite" /\ ~SameRoot(pre.parent, call.i, call.j)) => call.ret

\* a unite with c # 0 joined a component of two elements to another one
C4_Witness ==
  /\ pc = "dsu"
  /\ call.op = "unite"
  /\ ~SameRoot(pre.parent, call.i, call.j)
  /\ call.c # 0
  /\ pre.accepted # {}
  /\ \E x \in 1..n : pre.parent[x] # x /\ pre.diff[x] # 0
  /\ call.ret

\* C5: unite(i, i, c) returns true for c = 0 and false for c # 0: for the
\* call just made, and for the call any element would make in this state.
C5_SelfConsistency ==
  /\ (call.op = "unite" /\ call.i = call.j) => (call.ret <=> call.c = 0)
  /\ \A i \in 1..n : \A c \in CVals :
       UniteOp([parent |-> parent, diff |-> diff], i, i, c).ret <=> (c = 0)

\* unite(i, i, c) with c # 0 returned false on an i that was not a root and
\* had a diff other than 0
C5_Witness ==
  /\ pc = "dsu"
  /\ call.op = "unite"
  /\ call.i = call.j
  /\ call.c # 0
  /\ ~call.ret
  /\ pre.parent[call.i] # call.i
  /\ pre.diff[call.i] # 0

\* C6: once unite(a, b, c1) and unite(b, d, c2) have returned true, a call
\* unite(a, d, c3) returns true if c3 = c1 + c2 and false otherwise; after
\* unite(1,2,5) and unite(2,3,3), unite(1,3,8) is true and unite(1,3,7) false.
C6_Transitivity ==
  call.op = "unite" =>
    /\ \A p1 \in pre.accepted : \A p2 \in pre.accepted :
         (p1[1] = call.i /\ p1[2] = p2[1] /\ p2[2] = call.j) =>
           (call.ret <=> call.c = p1[3] + p2[3])
    /\ ({<<1, 2, 5>>, <<2, 3, 3>>} \subseteq pre.accepted
          /\ call.i = 1 /\ call.j = 3 /\ call.c = 8) => call.ret
    /\ ({<<1, 2, 5>>, <<2, 3, 3>>} \subseteq pre.accepted
          /\ call.i = 1 /\ call.j = 3 /\ call.c = 7) => ~call.ret

\* unite(1,2,5), unite(2,3,3), then unite(1,3,7), which returned false
C6_Witness ==
  /\ pc = "dsu"
  /\ pre.accepted = {<<1, 2, 5>>, <<2, 3, 3>>}
  /\ call.op = "unite"
  /\ call.i = 1 /\ call.j = 3 /\ call.c = 7
  /\ ~call.ret

\* C7: find(i) returns the root r of i; every node of the old path from i to
\* r other than r then has r as parent and its old pot as diff, and every
\* other slot of parent and diff is as before.
C7_FindCompresses ==
  call.op = "find" =>
    LET r == Root(pre.parent, call.i)
        P == PathNodes(pre.parent, call.i)
    IN /\ call.root = r
       /\ \A x \in 0..n :
            IF x \in P \ {r}
            THEN parent[x] = r /\ diff[x] = Pot(pre.parent, pre.diff, x)
            ELSE parent[x] = pre.parent[x] /\ diff[x] = pre.diff[x]

\* a find on a path of three nodes, whose first node got a new parent and a
\* new diff
C7_Witness ==
  /\ pc = "dsu"
  /\ call.op = "find"
  /\ Cardinality(PathNodes(pre.parent, call.i)) = 3
  /\ parent[call.i] # pre.parent[call.i]
  /\ diff[call.i] # pre.diff[call.i]
  /\ pre.diff[pre.parent[call.i]] # 0

\* C8: a find(i) that follows a find(i) returns the same root and changes
\* neither parent nor diff; and so would the find(i) that follows any find(i).
C8_FindIdempotent ==
  /\ (call.op = "find" /\ call.again) =>
       /\ call.root = call.last
       /\ parent = pre.parent
       /\ diff = pre.diff
  /\ call.op = "find" =>
       LET f == FindOp([parent |-> parent, diff |-> diff], call.i)
       IN f.root = call.root /\ f.parent = parent /\ f.diff = diff

\* a second find(i) in a row, on an i that the first one had compressed
C8_Witness ==
  /\ pc = "dsu"
  /\ call.op = "find"
  /\ call.again
  /\ parent[call.i] = call.root
  /\ call.root # call.i
  /\ \E x \in accepted : x[1] = call.i /\ x[2] # call.root /\ x[3] # 0
  /\ diff[call.i] # 0

\* C9: when the constraints of a test case are satisfiable, solve() has found
\* every unite true and printed YES, and on every permutation of them unite
\* returns true each time and two elements end under one root exactly when
\* they do here, with the same pot(a) - pot(b).
C9_OrderIndependent ==
  (Printed /\ Sat(n, cons)) =>
    /\ consistent
    /\ Verdict = "YES"
    /\ ucount = m
    /\ \A q \in Permutations(1..Len(cons)) :
         LET r == RunSeq(n, [x \in 1..Len(cons) |-> cons[q[x]]])
         IN /\ r.ok
            /\ \A a \in 1..n : \A b \in 1..n :
                 /\ SameRoot(r.parent, a, b) <=> SameRoot(parent, a, b)
                 /\ SameRoot(parent, a, b) =>
                      PotDiff(r.parent, r.diff, a, b) = PotDiff(parent, diff, a, b)

\* scenario A read in another order
C9_Witness ==
  /\ Printed
  /\ cons = <<<<1, 3, 8>>, <<2, 3, 3>>, <<1, 2, 5>>>>
  /\ Verdict = "YES"

\* C10: once unite has returned false, consistent is false and unite has been
\* called on no later constraint; each later round of the loop reads one
\* constraint and leaves parent, diff and the count of unite calls alone; and
\* the verdict, printed after all m constraints were read, is NO.
C10_AfterContradiction ==
  /\ [](failK # 0 =>
          /\ ~consistent
          /\ ucount = failK
          /\ Printed => (Verdict = "NO" /\ k = m /\ Len(cons) = m))
  /\ [][(pc = "loop" /\ failK # 0) =>
          /\ ~consistent'
          /\ failK' = failK
          /\ parent' = parent
          /\ diff' = diff
          /\ ucount' = ucount
          /\ IF k < m
             THEN pc' = "loop" /\ k' = k + 1 /\ Len(cons') = Len(cons) + 1
             ELSE Printed' /\ Verdict' = "NO"]_vars

\* the first of three constraints was refused, the two others, which name
\* two different elements each, were read, and NO was printed
C10_Witness ==
  /\ Printed
  /\ failK = 1
  /\ m = 3
  /\ Len(cons) = 3
  /\ cons[2][1] # cons[2][2]
  /\ cons[3][1] # cons[3][2]
  /\ Verdict = "NO"

\* C11: for n = 3 and the constraints (1,2,5), (2,3,3), (1,3,k) read in that
\* order, the line printed is YES when k = 8 and NO when k = 9.
C11_ScenariosAB ==
  (Printed /\ n = 3 /\ m = 3 /\ Len(cons) = 3
     /\ cons[1] = <<1, 2, 5>> /\ cons[2] = <<2, 3, 3>>
     /\ cons[3][1] = 1 /\ cons[3][2] = 3) =>
    /\ cons[3][3] = 8 => Verdict = "YES"
    /\ cons[3][3] = 9 => Verdict = "NO"

\* scenario B was read as the second test case, its third constraint was
\* refused, and NO was printed after a YES
C11_Witness ==
  /\ Printed
  /\ n = 3
  /\ cons = <<<<1, 2, 5>>, <<2, 3, 3>>, <<1, 3, 9>>>>
  /\ out = <<"YES", "NO">>
  /\ failK = 3

\* C12 as stated: a test case with a single constraint prints YES, whatever
\* the constraint is.
C12_SingleAlwaysYes ==
  (Printed /\ m = 1) => Verdict = "YES"

\* C12, amended: a test case with a single constraint (i, j, c) prints YES
\* unless i = j and c # 0, and then it prints NO; n = 4 with the single
\* constraint (1,2,0) prints YES.
C12_SingleConstraint ==
  (Printed /\ m = 1) =>
    /\ Len(cons) = 1
    /\ (Verdict = "YES") <=> ~(cons[1][1] = cons[1][2] /\ cons[1][3] # 0)
    /\ (Verdict = "NO") <=> (cons[1][1] = cons[1][2] /\ cons[1][3] # 0)
    /\ (n = 4 /\ cons[1] = <<1, 2, 0>>) => Verdict = "YES"

\* scenario C: n = 4, m = 1, the constraint (1,2,0), and YES printed
C12_Witness ==
  /\ Printed
  /\ n = 4
  /\ m = 1
  /\ cons = <<<<1, 2, 0>>>>
  /\ Verdict = "YES"

\* C13: the lines written so far are one per finished test case, so t of
\* them when main returns; a line once written stays and new ones go to the
\* end; every test case starts on parent[i] = i, diff[i] = 0 for i in 0..n;
\* and the line of a test case is the one a fresh DSU gives on that test
\* case's n and constraints alone.
C13_IndependentTestCases ==
  /\ [](/\ pc = "main" => Len(out) + t = tests
        /\ pc \in {"solve", "loop"} => Len(out) + t + 1 = tests
        /\ pc = "done" => Len(out) = tests
        /\ (pc = "loop" /\ k = 0) =>
             /\ DOMAIN parent = 0..n /\ DOMAIN diff = 0..n
             /\ \A x \in 0..n : parent[x] = x /\ diff[x] = 0
             /\ consistent
        /\ Printed =>
             Verdict = IF RunSeq(n, cons).ok THEN "YES" ELSE "NO")
  /\ [][\/ out' = out
        \/ /\ pc = "loop"
           /\ Printed'
           /\ \E v \in {"YES", "NO"} : out' = Append(out, v)]_vars

\* the second of two test cases printed YES on three constraints after the
\* first one had printed NO
C13_Witness ==
  /\ Printed
  /\ tests = 2
  /\ t = 0
  /\ out = <<"NO", "YES">>
  /\ Len(cons) = 3
  /\ Cardinality(accepted) = 3

\* the nodes the two finds of unite(i, j, c) repoint: those on the old paths
\* from i and from j, the roots left out
Compressed(pa, i, j) ==
  (PathNodes(pa, i) \cup PathNodes(pa, j)) \ {Root(pa, i), Root(pa, j)}

\* C14: a unite(i, j, c) that finds two roots ri # rj leaves parent[ri] = rj
\* and diff[ri] = c + offj - offi, with offi and offj the diffs of i and j
\* after the two finds; rj stays a root and is the root of every element of
\* the two components; the nodes the finds compressed hang under their old
\* root with their old pot, and no other slot of parent or diff is changed.
C14_MergeAttachesRi ==
  (call.op = "unite" /\ ~SameRoot(pre.parent, call.i, call.j)) =>
    LET ri == Root(pre.parent, call.i)
        rj == Root(pre.parent, call.j)
        f1 == FindOp([parent |-> pre.parent, diff |-> pre.diff], call.i)
        f2 == FindOp([parent |-> f1.parent, diff |-> f1.diff], call.j)
        offi == f2.diff[call.i]
        offj == f2.diff[call.j]
        Z == Compressed(pre.parent, call.i, call.j)
    IN /\ call.merged
       /\ offi = Pot(pre.parent, pre.diff, call.i)
       /\ offj = Pot(pre.parent, pre.diff, call.j)
       /\ parent[ri] = rj
       /\ diff[ri] = call.c + offj - offi
       /\ parent[rj] = rj
       /\ \A x \in 1..n :
            Root(pre.parent, x) \in {ri, rj} => Root(parent, x) = rj
       /\ \A x \in Z :
            /\ parent[x] = Root(pre.parent, x)
            /\ diff[x] = Pot(pre.parent, pre.diff, x)
       /\ \A x \in (0..n) \ (Z \cup {ri}) :
            parent[x] = pre.parent[x] /\ diff[x] = pre.diff[x]

\* a merge on an i that sat below its root, with c # 0 and a pot other than 0
C14_Witness ==
  /\ pc = "dsu"
  /\ call.op = "unite"
  /\ call.merged
  /\ call.c # 0
  /\ pre.parent[call.i] # call.i
  /\ Pot(pre.parent, pre.diff, call.i) # 0
  /\ diff[Root(pre.parent, call.i)] # call.c

\* C15: a find(i), and a unite(i, j, c) on two elements of one component,
\* whatever it returns, leave every element its root and its pot; only
\* parent pointers and diffs of the nodes they compress may differ.
C15_LogicalStateKept ==
  (\/ call.op = "find"
   \/ call.op = "unite" /\ SameRoot(pre.parent, call.i, call.j)) =>
    /\ \A x \in 0..n :
         /\ Root(parent, x) = Root(pre.parent, x)
         /\ Pot(parent, diff, x) = Pot(pre.parent, pre.diff, x)
    /\ \A x \in 0..n :
         (parent[x] # pre.parent[x] \/ diff[x] # pre.diff[x]) =>
           x \in Compressed(pre.parent, call.i,
                            IF call.op = "find" THEN call.i ELSE call.j)

\* a unite on two elements of one component returned false after its finds
\* had given a node a new parent and a new diff
C15_Witness ==
  /\ pc = "dsu"
  /\ call.op = "unite"
  /\ SameRoot(pre.parent, call.i, call.j)
  /\ ~call.ret
  /\ \E x \in 1..n : parent[x] # pre.parent[x] /\ diff[x] # pre.diff[x]

\* following parent pointers from x for at most steps steps ends on a node
\* that is its own parent
RECURSIVE ReachesRoot(_, _, _)
ReachesRoot(pa, x, steps) ==
  IF pa[x] = x THEN TRUE
  ELSE IF steps = 0 THEN FALSE
  ELSE ReachesRoot(pa, pa[x], steps - 1)

\* C16: parent stays inside 0..n, and from every element the parent pointers
\* lead to a self-parent root in at most n steps, hence through no node
\* twice: the recursion of find, and so unite, ends.
C16_ParentForest ==
  /\ DOMAIN parent = 0..n
  /\ \A x \in 0..n : parent[x] \in 0..n
  /\ \A x \in 0..n : ReachesRoot(parent, x, n)

\* a unite call was made on a DSU that holds a path of three nodes
C16_Witness ==
  /\ pc = "dsu"
  /\ call.op = "unite"
  /\ ucount = 3
  /\ \E x \in 1..n : ~ReachesRoot(parent, x, 1)

\* the elements joined to one of S by at most steps edges of E, an edge
\* being the pair (i, j) of a constraint (i, j, c), taken in both directions
RECURSIVE Closure(_, _, _)
Closure(E, S, steps) ==
  IF steps = 0 THEN S
  ELSE Closure(E,
               S \cup {e[2] : e \in {d \in E : d[1] \in S}}
                 \cup {e[1] : e \in {d \in E : d[2] \in S}},
               steps - 1)

Connected(E, a, b) == b \in Closure(E, {a}, n)

\* C17: two elements have one root exactly when the pairs (i, j) of the
\* unite calls that returned true connect them; and a unite call that
\* returned false gave no element another root and accepted nothing.
C17_ComponentsAreConnectivity ==
  /\ \A a \in 1..n : \A b \in 1..n :
       SameRoot(parent, a, b) <=> Connected(accepted, a, b)
  /\ (call.op = "unite" /\ ~call.ret) =>
       /\ accepted = pre.accepted
       /\ \A x \in 0..n : Root(parent, x) = Root(pre.parent, x)

\* of three elements two were joined by one unite, a later unite on them
\* returned false, and the third element is still alone
C17_Witness ==
  /\ pc = "dsu"
  /\ n = 3
  /\ call.op = "unite"
  /\ ~call.ret
  /\ call.i # call.j
  /\ Cardinality(accepted) = 1
  /\ \E a \in 1..n : \A b \in (1..n) \ {a} : ~SameRoot(parent, a, b)

\* the sum of |c| over the constraints unite was called on in this test case
AppliedSum == SumAbs(SubSeq(cons, 1, ucount))

\* the largest |c| among the constraints a DSU of nn elements may be given
MaxAbsC(nn) ==
  LET A == {Abs(x[3]) : x \in Inputs(nn)}
  IN CHOOSE v \in A : \A w \in A : w <= v

\* C18: every diff stored, and every sum or difference the last unite call
\* and its finds computed, is at most the sum of |c| over the constraints
\* unite was called on, which is at most their number times the largest |c|:
\* with |c| <= 2^31 and fewer than 2^31 constraints that is below 2^62, inside
\* the range of long long.
C18_NoWraparound ==
  /\ \A x \in 0..n : Abs(diff[x]) <= AppliedSum
  /\ call.op = "unite" =>
       \A v \in UniteSums([parent |-> pre.parent, diff |-> pre.diff],
                          call.i, call.j, call.c) :
         Abs(v) <= AppliedSum
  /\ n > 0 => AppliedSum <= ucount * MaxAbsC(n)

\* the third unite call of a test case, whose find added two diffs other
\* than 0 while compressing a path
C18_Witness ==
  /\ pc = "loop"
  /\ ucount = 3
  /\ call.op = "unite"
  /\ \E v \in FindSums([parent |-> pre.parent, diff |-> pre.diff], call.i) :
       Abs(v) >= 2
  /\ \E x \in 1..n : pre.parent[x] # parent[x] /\ pre.diff[x] # 0
                      /\ pre.diff[pre.parent[x]] # 0

\* C19: every node that is its own parent has diff 0. With it, a find(i)
\* whose old parent is the root leaves diff[i] as it was, and after a
\* unite(i, j, c) on an i below its root diff[i] is the old pot of i, also
\* when the find of j came through i.
C19_RootDiffZero ==
  /\ \A x \in 0..n : parent[x] = x => diff[x] = 0
  /\ (call.op = "find" /\ pre.parent[call.i] # call.i
        /\ pre.parent[pre.parent[call.i]] = pre.parent[call.i]) =>
       diff[call.i] = pre.diff[call.i]
  /\ (call.op = "unite" /\ pre.parent[call.i] # call.i) =>
       diff[call.i] = Pot(pre.parent, pre.diff, call.i)

\* a unite(i, j, c) whose find of j went through i, which its find of i had
\* left right below the root with a diff other than 0
C19_Witness ==
  /\ pc = "dsu"
  /\ call.op = "unite"
  /\ call.i # call.j
  /\ pre.parent[call.j] = call.i
  /\ pre.parent[call.i] # call.i
  /\ pre.diff[call.i] # 0
  /\ pre.diff[call.j] # 0
  /\ parent[call.j] = Root(pre.parent, call.i)

\* C20: a unite(i, j, c) on two components keeps pot(a) - pot(b) for every
\* two elements a, b that had one root before the call, and keeps them under
\* one root; so every constraint accepted earlier still holds.
C20_MergeKeepsDifferences ==
  (call.op = "unite" /\ ~SameRoot(pre.parent, call.i, call.j)) =>
    /\ \A a \in 1..n : \A b \in 1..n :
         SameRoot(pre.parent, a, b) =>
           /\ SameRoot(parent, a, b)
           /\ PotDiff(parent, diff, a, b)
                = PotDiff(pre.parent, pre.diff, a, b)
    /\ \A x \in pre.accepted :
         /\ SameRoot(parent, x[1], x[2])
         /\ PotDiff(parent, diff, x[1], x[2]) = x[3]

\* a merge with c # 0 of a component of two elements, a pot other than 0
\* apart, whose element i was not the root
C20_Witness ==
  /\ pc = "dsu"
  /\ call.op = "unite"
  /\ call.merged
  /\ call.c # 0
  /\ pre.parent[call.i] # call.i
  /\ \E x \in pre.accepted : x[1] # x[2] /\ x[3] # 0
  /\ \E a \in 1..n : \E b \in 1..n :
       /\ a # b
       /\ SameRoot(pre.parent, a, b)
       /\ PotDiff(pre.parent, pre.diff, a, b) # 0
       /\ Pot(parent, diff, a) # Pot(pre.parent, pre.diff, a)

====
